---- MODULE Spec2Model ----
(***************************************************************************)
(* The poll data model of polls/models.py: the Question and Choice tables, *)
(* the constraints their field declarations put on stored rows, the        *)
(* cascading delete declared on Choice.question, and the method            *)
(* Question.was_published_recently.                                        *)
(*                                                                         *)
(* A string is modelled by a tag and its length, [tag |-> t, len |-> n].   *)
(* An optional argument is a set: {} is None / not passed, {v} is v.       *)
(* Times are whole seconds.                                                *)
(***************************************************************************)
EXTENDS Integers, FiniteSets, Sequences, TLC

VARIABLES questions, choices, nextQid, nextCid, clock, tx, lastOp, call, prevCall

vars == <<questions, choices, nextQid, nextCid, clock, tx, lastOp, call, prevCall>>

(* ------------------------------ bounds -------------------------------- *)

\* Question ids the storage layer may issue.
MaxQuestions == 2
\* Choice ids the storage layer may issue.
MaxChoices == 2
\* Largest vote count an external caller writes.
MaxVotes == 1
\* Seconds the clock may advance.
MaxTicks == 2

(* ------------------------- field declarations ------------------------- *)

\* CharField(max_length=200), for question_text and choice_text alike.
max_length == 200

\* PositiveIntegerField(default=0)
votes_default == 0

\* datetime.timedelta(days=n), in seconds.
timedelta(days) == days * 86400

Text(tag, n) == [tag |-> tag, len |-> n]

NULL == {}

Some(v) == {v}

Value(opt) == CHOOSE v \in opt : TRUE

ShortText == Text("What's new?", 11)
FullText == Text("x*200", max_length)
LongText == Text("x*201", max_length + 1)

QuestionTexts == {ShortText, FullText, LongText}
ChoiceTexts == {Text("Not much", 8), LongText}

StartClock == timedelta(1) + 1

\* pub_date values one second before, at and one second after the one-day
\* boundary of StartClock, and one in the future of every clock value.
PubDates == {StartClock - timedelta(1) - 1, StartClock - timedelta(1),
             StartClock - timedelta(1) + 1, StartClock + timedelta(1)}

(* ----------------------------- constraints ---------------------------- *)

MaxLengthOff(text) == TRUE

\* CharField(max_length=200): at most max_length characters.
MaxLengthOk(text) == text.len <= max_length

\* A field declared without null=True is NOT NULL.
NotNull(opt) == opt # NULL

ForeignKeyUnchecked(qref, qs) == TRUE

\* ForeignKey(Question): the referenced row exists.
ForeignKeyOk(qref, qs) == \E q \in qs : q.id = Value(qref)

PositiveOff(v) == TRUE

\* PositiveIntegerField: the value is not negative.
PositiveOk(v) == v >= 0

\* Question: question_text and pub_date.
QuestionValid(text, pub) == MaxLengthOk(text) /\ NotNull(pub)

\* Choice: question, choice_text and votes.
ChoiceValid(qref, text, v, qs) ==
    /\ NotNull(qref)
    /\ ForeignKeyOk(qref, qs)
    /\ MaxLengthOk(text)
    /\ PositiveOk(v)

(* -------------------------------- rows -------------------------------- *)

QuestionRow(id, text, pub) ==
    [id |-> id, question_text |-> text, pub_date |-> pub]

ChoiceRow(id, q, text, v) ==
    [id |-> id, question |-> q, choice_text |-> text, votes |-> v]

Ids(rows) == {r.id : r \in rows}

Get(rows, id) == {r \in rows : r.id = id}

NextIdReused(n) == n

\* The storage layer's id sequence.
NextId(n) == n + 1

\* Question.__str__ / Choice.__str__
QuestionStr(q) == q.question_text
ChoiceStr(c) == c.choice_text

CollectNothing(q, cs) == {}

CollectAll(q, cs) == cs

CollectOne(q, cs) ==
    LET mine == {c \in cs : c.question = q}
    IN  IF mine = {} THEN {} ELSE {CHOOSE c \in mine : \A d \in mine : c.id <= d.id}

\* on_delete=models.CASCADE: the Choices deleted along with Question q.
Collect(q, cs) == {c \in cs : c.question = q}

TxVisibleAutocommit(rows, removed) == rows \ removed

\* The committed rows after a statement of an open transaction removed
\* `removed`: nothing is visible before the commit.
TxVisible(rows, removed) == rows

was_published_recently_flipped(self, now) == self.pub_date <= now - timedelta(1)

was_published_recently_strict(self, now) == self.pub_date > now - timedelta(1)

\* Question.was_published_recently, with `now` the value timezone.now() returns.
was_published_recently(self, now) == self.pub_date >= now - timedelta(1)

NoTx == [phase |-> "none"]

NoOp == [op |-> "none", err |-> "none"]

NoCall == [id |-> 0, pub_date |-> 0, now |-> 0, result |-> FALSE]

(* -------------------------------- Init -------------------------------- *)

Init ==
    /\ questions = {}
    /\ choices = {}
    /\ nextQid = 1
    /\ nextCid = 1
    /\ clock = StartClock
    /\ tx = NoTx
    /\ lastOp = NoOp
    /\ call = NoCall
    /\ prevCall = NoCall

(* ------------------------------- actions ------------------------------ *)

\* Question(question_text=text, pub_date=pub).save()
Create(text, pub) ==
    /\ tx = NoTx
    /\ nextQid <= MaxQuestions
    /\ IF QuestionValid(text, pub)
       THEN /\ questions' = questions \cup {QuestionRow(nextQid, text, Value(pub))}
            /\ nextQid' = NextId(nextQid)
            /\ lastOp' = [op |-> "create", err |-> "none", id |-> nextQid,
                          text |-> text, pub |-> pub]
       ELSE /\ UNCHANGED <<questions, nextQid>>
            /\ lastOp' = [op |-> "create", err |-> "ConstraintViolation", id |-> 0,
                          text |-> text, pub |-> pub]
    /\ UNCHANGED <<choices, nextCid, clock, tx, call, prevCall>>

\* Choice(question=qref, choice_text=text[, votes=v]).save()
CreateChoice(qref, text, v) ==
    LET votes == IF v = NULL THEN votes_default ELSE Value(v)
    IN  /\ tx = NoTx
        /\ nextCid <= MaxChoices
        /\ IF ChoiceValid(qref, text, votes, questions)
           THEN /\ choices' = choices \cup {ChoiceRow(nextCid, Value(qref), text, votes)}
                /\ nextCid' = NextId(nextCid)
                /\ lastOp' = [op |-> "create_choice", err |-> "none", id |-> nextCid,
                              question |-> qref, votes |-> v]
           ELSE /\ UNCHANGED <<choices, nextCid>>
                /\ lastOp' = [op |-> "create_choice", err |-> "ConstraintViolation",
                              id |-> 0, question |-> qref, votes |-> v]
        /\ UNCHANGED <<questions, nextQid, clock, tx, call, prevCall>>

\* An external caller's vote update: choice.votes = v; choice.save()
SaveVotes(c, v) ==
    /\ tx = NoTx
    /\ c \in choices
    /\ IF PositiveOk(v)
       THEN /\ choices' = (choices \ {c}) \cup {[c EXCEPT !.votes = v]}
            /\ lastOp' = [op |-> "save_votes", err |-> "none", id |-> c.id]
       ELSE /\ UNCHANGED choices
            /\ lastOp' = [op |-> "save_votes", err |-> "ConstraintViolation", id |-> c.id]
    /\ UNCHANGED <<questions, nextQid, nextCid, clock, tx, call, prevCall>>

\* question.delete(): the transaction opens and the cascade is collected.
DeleteBegin(q) ==
    /\ tx = NoTx
    /\ IF q \in Ids(questions)
       THEN /\ tx' = [phase |-> "begun", q |-> q, collected |-> Collect(q, choices)]
            /\ UNCHANGED lastOp
       ELSE /\ UNCHANGED tx
            /\ lastOp' = [op |-> "delete", err |-> "NotFound", q |-> q, collected |-> {}]
    /\ UNCHANGED <<questions, choices, nextQid, nextCid, clock, call, prevCall>>

\* The cascade's first statement: the collected Choices are deleted.
DeleteChoices ==
    /\ tx.phase = "begun"
    /\ choices' = TxVisible(choices, tx.collected)
    /\ tx' = [tx EXCEPT !.phase = "choices_deleted"]
    /\ UNCHANGED <<questions, nextQid, nextCid, clock, lastOp, call, prevCall>>

\* The cascade's second statement: the Question itself is deleted.
DeleteQuestion ==
    /\ tx.phase = "choices_deleted"
    /\ questions' = TxVisible(questions, Get(questions, tx.q))
    /\ tx' = [tx EXCEPT !.phase = "question_deleted"]
    /\ UNCHANGED <<choices, nextQid, nextCid, clock, lastOp, call, prevCall>>

\* The transaction commits: both statements take effect at once.
DeleteCommit ==
    /\ tx.phase = "question_deleted"
    /\ questions' = questions \ Get(questions, tx.q)
    /\ choices' = choices \ tx.collected
    /\ lastOp' = [op |-> "delete", err |-> "none", q |-> tx.q, collected |-> tx.collected]
    /\ tx' = NoTx
    /\ UNCHANGED <<nextQid, nextCid, clock, call, prevCall>>

\* A crash while the delete's transaction is open: it is rolled back.
Crash ==
    /\ tx # NoTx
    /\ lastOp' = [op |-> "delete", err |-> "Crashed", q |-> tx.q,
                  collected |-> tx.collected, phase |-> tx.phase]
    /\ tx' = NoTx
    /\ UNCHANGED <<questions, choices, nextQid, nextCid, clock, call, prevCall>>

Next ==
    \/ \E text \in QuestionTexts, pub \in {NULL, Some(clock)} : Create(text, pub)
    \/ \E qref \in {NULL} \cup {Some(i) : i \in 1..MaxQuestions},
          text \in ChoiceTexts,
          v \in {NULL, Some(-1), Some(MaxVotes)} : CreateChoice(qref, text, v)
    \/ \E c \in choices, v \in -1..MaxVotes : SaveVotes(c, v)
    \/ \E q \in 1..MaxQuestions : DeleteBegin(q)
    \/ DeleteChoices
    \/ DeleteQuestion
    \/ DeleteCommit
    \/ Crash

Spec == Init /\ [][Next]_vars

(* ------------------- the clock and the recency check ------------------ *)

\* timezone.now(): the global clock's reading.
timezone_now == clock

\* A store holding one Question, published at any of PubDates.
InitClock ==
    /\ \E p \in PubDates : questions = {QuestionRow(1, ShortText, p)}
    /\ choices = {}
    /\ nextQid = 2
    /\ nextCid = 1
    /\ clock = StartClock
    /\ tx = NoTx
    /\ lastOp = NoOp
    /\ call = NoCall
    /\ prevCall = NoCall

\* The global clock advances by a second.
Tick ==
    /\ clock < StartClock + MaxTicks
    /\ clock' = clock + 1
    /\ UNCHANGED <<questions, choices, nextQid, nextCid, tx, lastOp, call, prevCall>>

\* question.pub_date = pub; question.save()
SavePubDate(q, pub) ==
    /\ tx = NoTx
    /\ q \in questions
    /\ IF NotNull(pub)
       THEN /\ questions' = (questions \ {q}) \cup {[q EXCEPT !.pub_date = Value(pub)]}
            /\ lastOp' = [op |-> "save_question", err |-> "none", id |-> q.id]
       ELSE /\ UNCHANGED questions
            /\ lastOp' = [op |-> "save_question", err |-> "ConstraintViolation", id |-> q.id]
    /\ UNCHANGED <<choices, nextQid, nextCid, clock, tx, call, prevCall>>

\* question.was_published_recently(): the method takes no argument and reads
\* the clock itself.
WasPublishedRecently(q) ==
    /\ q \in questions
    /\ call' = [id |-> q.id, pub_date |-> q.pub_date, now |-> timezone_now,
                result |-> was_published_recently(q, timezone_now)]
    /\ prevCall' = call
    /\ UNCHANGED <<questions, choices, nextQid, nextCid, clock, tx, lastOp>>

NextClock ==
    \/ Tick
    \/ \E q \in questions, pub \in {NULL} \cup {Some(p) : p \in PubDates} : SavePubDate(q, pub)
    \/ \E q \in questions : WasPublishedRecently(q)

ClockSpec == InitClock /\ [][NextClock]_vars

(* ------------------------------- claims ------------------------------- *)

DeleteDone == lastOp.op = "delete" /\ lastOp.err = "none"

\* C1: after delete(Q) completes, Q is not retrievable and no Choice whose
\* question is Q is retrievable, however many Choices referenced Q.
DeleteCascades ==
    DeleteDone =>
        /\ Get(questions, lastOp.q) = {}
        /\ \A c \in choices : c.question # lastOp.q

\* A delete has completed for a Question that two Choices referenced.
DeleteCascadesWitness == DeleteDone /\ Cardinality(lastOp.collected) >= 2

\* C2: in every state, every stored Choice references exactly one Question
\* that is in the store.
NoOrphanChoice ==
    \A c \in choices : Cardinality(Get(questions, c.question)) = 1

\* A Choice is stored right after a delete that removed another Question and
\* its Choice.
NoOrphanChoiceWitness ==
    DeleteDone /\ lastOp.collected # {} /\ choices # {}

\* C3: was_published_recently is true exactly when pub_date >= now - 1 day,
\* now being the clock's reading at the call: true at exactly now - 1 day,
\* false one second earlier, true for a pub_date later than now.
RecentIffWithinDay ==
    call # NoCall =>
        /\ call.result <=> (call.pub_date >= call.now - 86400)
        /\ call.pub_date = call.now - 86400 => call.result
        /\ call.pub_date = call.now - 86400 - 1 => ~call.result
        /\ call.pub_date > call.now => call.result

\* One call at the boundary answered true, the next, one second past it, false.
RecentIffWithinDayWitness ==
    /\ prevCall # NoCall
    /\ prevCall.pub_date = prevCall.now - 86400
    /\ prevCall.result
    /\ call.pub_date = call.now - 86400 - 1
    /\ ~call.result

SameQuestionUnchanged ==
    /\ prevCall # NoCall
    /\ call # NoCall
    /\ prevCall.id = call.id
    /\ prevCall.pub_date = call.pub_date

\* C4 as stated: two calls on a Question with unchanged pub_date return the
\* same result, however far the global clock advanced between them.
RecentIgnoresGlobalClock ==
    SameQuestionUnchanged => call.result = prevCall.result

\* C4 as amended: the method reads the global clock at the call; two calls on
\* a Question with unchanged pub_date agree when the clock reads the same at
\* both, and when the clock has advanced the result can only have gone from
\* true to false.
RecentDeterminedByClockReading ==
    SameQuestionUnchanged =>
        /\ prevCall.now = call.now => call.result = prevCall.result
        /\ prevCall.now <= call.now => (call.result => prevCall.result)

\* Two calls on the same unchanged Question, the clock advanced in between,
\* the first true and the second false.
RecentDeterminedByClockReadingWitness ==
    /\ SameQuestionUnchanged
    /\ prevCall.now < call.now
    /\ prevCall.result
    /\ ~call.result

\* C5: every stored Choice has votes >= 0, and a Choice created without a
\* votes value has votes = 0.
VotesNonNegative ==
    /\ \A c \in choices : c.votes >= 0
    /\ (lastOp.op = "create_choice" /\ lastOp.err = "none" /\ lastOp.votes = NULL)
           => \A c \in Get(choices, lastOp.id) : c.votes = 0

\* A caller's write of a negative vote count was refused, with a Choice
\* stored whose votes had been raised before.
VotesNonNegativeWitness ==
    /\ lastOp.op = "save_votes"
    /\ lastOp.err = "ConstraintViolation"
    /\ \E c \in choices : c.id = lastOp.id /\ c.votes > 0

AllOrNothing(q, collected) ==
    \/ Get(questions, q) # {} /\ collected \subseteq choices
    \/ Get(questions, q) = {} /\ collected \cap choices = {}

\* C6: delete(Q) is atomic: while the delete runs, after a crash in the
\* middle of it and after it completes, the store holds either Q and all of
\* the Choices that referenced it, or none of them.
DeleteAtomic ==
    /\ tx # NoTx => (Get(questions, tx.q) # {} /\ tx.collected \subseteq choices)
    /\ (lastOp.op = "delete" /\ lastOp.err = "Crashed") =>
           (Get(questions, lastOp.q) # {} /\ lastOp.collected \subseteq choices)
    /\ DeleteDone => AllOrNothing(lastOp.q, lastOp.collected)

\* The delete of a Question with a Choice crashed after both of its
\* statements had run.
DeleteAtomicWitness ==
    /\ lastOp.op = "delete"
    /\ lastOp.err = "Crashed"
    /\ lastOp.phase = "question_deleted"
    /\ lastOp.collected # {}

\* C7: a create_choice whose question is not in the store fails with a
\* ConstraintViolation and persists no Choice.
CreateChoiceNeedsQuestion ==
    [][(/\ lastOp'.op = "create_choice"
        /\ \A q \in lastOp'.question : Get(questions, q) = {})
           => (lastOp'.err = "ConstraintViolation" /\ choices' = choices)]_vars

\* A create_choice naming a Question that had been deleted was refused.
CreateChoiceNeedsQuestionWitness ==
    /\ lastOp.op = "create_choice"
    /\ lastOp.err = "ConstraintViolation"
    /\ \E q \in lastOp.question : Get(questions, q) = {} /\ q < nextQid

CreateRoundTrip ==
    [][/\ (lastOp'.op = "create" /\ lastOp'.err = "none") =>
              Get(questions', lastOp'.id) =
                  {[id |-> lastOp'.id, question_text |-> lastOp'.text,
                    pub_date |-> Value(lastOp'.pub)]}
       /\ \A a, b \in questions' : a.id = b.id => a = b
       /\ \A r \in questions' \ questions : Get(questions, r.id) = {}
       /\ \A r \in questions : Get(questions', r.id) \subseteq {r}]_vars

\* A create succeeded with a question_text of 200 characters while another
\* Question was stored.
CreateRoundTripWitness ==
    /\ lastOp.op = "create"
    /\ lastOp.err = "none"
    /\ lastOp.text.len = 200
    /\ Cardinality(questions) >= 2

\* C10: the delete of Q removes Q and the Choices that reference Q and
\* nothing else: every other Question and Choice is stored unchanged.
DeleteFrame ==
    [][(tx # NoTx /\ lastOp'.op = "delete" /\ lastOp'.err = "none" /\ tx' = NoTx) =>
          /\ questions' = {r \in questions : r.id # tx.q}
          /\ choices' = {c \in choices : c.question # tx.q}]_vars

\* A delete completed that removed a Choice and left another Question and
\* its Choice stored.
DeleteFrameWitness ==
    DeleteDone /\ lastOp.collected # {} /\ questions # {} /\ choices # {}

====
